---------------------------- MODULE Spec2Model ----------------------------
(***************************************************************************)
(* A model of the cinemol geometry kernel (src/src/cinemol/geometry.py)    *)
(* and of the colors and atom tables of src/src/cinemol/style.py.          *)
(*                                                                         *)
(* Numbers.  Python floats are modelled as exact rationals [n, d] in       *)
(* lowest terms: +, -, *, / are exact.  The irrational library functions   *)
(* math.sqrt, math.sin and math.cos return an exact value where a          *)
(* rational one exists in the model's tables and otherwise a value rounded *)
(* to three decimals, so statements that the specification writes with     *)
(* "approximately equal" are checked up to the tolerance Tol.              *)
(*                                                                         *)
(* Calls.  Every kernel function is an operator that returns a result      *)
(* record: Ok(value) or Raise(exception name).  The state machine Spec     *)
(* performs one call per step on inputs drawn from small finite sets and   *)
(* records the call and its result.                                        *)
(*                                                                         *)
(* Threads.  The state machine ConcSpec runs one call per thread, the      *)
(* calls interleaved statement by statement, on argument objects that the  *)
(* threads share and with the one pseudo-random source of the process.     *)
(***************************************************************************)
EXTENDS Integers, Sequences, FiniteSets, TLC

VARIABLES
    op, args, result,       \* the sequential caller: the call made and its outcome
    heap, random, frames    \* concurrent callers: shared objects, the shared
                            \* pseudo-random source, and one call frame per thread

vars == <<op, args, result, heap, random, frames>>
\* The variables of the sequential caller and of the concurrent callers.
seq_vars == <<op, args, result>>
conc_vars == <<heap, random, frames>>

-----------------------------------------------------------------------------
(* Bounds of the model.                                                    *)

\* Coordinates of the sampled points range over -1 .. MaxCoord.
MaxCoord == 1
\* Radii range over 1 .. MaxRadius.
MaxRadius == 2
\* Resolutions (num_points, num_phi, num_theta, resolution) range over
\* 0 .. MaxRes.
MaxRes == 4
\* Resolution of a whole-cylinder sampling ranges over 0 .. MaxCylRes.
MaxCylRes == 2

-----------------------------------------------------------------------------
(* Rational arithmetic: the model of Python's float operators.             *)

RECURSIVE Gcd(_, _)
Gcd(a, b) == IF b = 0 THEN a ELSE Gcd(b, a % b)

IAbs(k) == IF k < 0 THEN -k ELSE k

\* The rational n/d (d # 0) in lowest terms with a positive denominator.
Rat(n, d) ==
    LET g == Gcd(IAbs(n), IAbs(d))
        s == IF d < 0 THEN -1 ELSE 1
    IN  [n |-> s * (n \div g), d |-> s * (d \div g)]

I(k) == [n |-> k, d |-> 1]
Zero == I(0)
One == I(1)

RAdd(a, b) ==
    LET g == Gcd(a.d, b.d)
    IN  Rat(a.n * (b.d \div g) + b.n * (a.d \div g), (a.d \div g) * b.d)
RNeg(a) == [n |-> -a.n, d |-> a.d]
RSub(a, b) == RAdd(a, RNeg(b))
RMul(a, b) ==
    LET g1 == Gcd(IAbs(a.n), b.d)
        g2 == Gcd(IAbs(b.n), a.d)
    IN  Rat((a.n \div g1) * (b.n \div g2), (a.d \div g2) * (b.d \div g1))
\* a / b for b # 0 (callers raise ZeroDivisionError before dividing by 0).
RDiv(a, b) == RMul(a, Rat(b.d, b.n))
RLt(a, b) == RSub(a, b).n < 0
RLe(a, b) == RSub(a, b).n <= 0
RAbs(a) == [n |-> IAbs(a.n), d |-> a.d]
RMaxOf(a, b) == IF RLt(a, b) THEN b ELSE a

\* Approximate equality, the specification's "~" on reals.
Tol == Rat(1, 10)
Approx(a, b) == RLe(RAbs(RSub(a, b)), Tol)

\* floor(sqrt(m)) for a natural number m < 2^31, by bisection.
RECURSIVE ISqrtIn(_, _, _)
ISqrtIn(m, lo, hi) ==
    IF lo >= hi THEN lo
    ELSE LET mid == (lo + hi + 1) \div 2
         IN  IF mid * mid <= m THEN ISqrtIn(m, mid, hi)
                               ELSE ISqrtIn(m, lo, mid - 1)
ISqrt(m) == ISqrtIn(m, 0, IF m < 46340 THEN m ELSE 46340)

IsSquare(m) == ISqrt(m) * ISqrt(m) = m

\* The first k decimals of r/d (0 <= r < d) as an integer, by long division.
RECURSIVE Decimals(_, _, _, _)
Decimals(r, d, k, acc) ==
    IF k = 0 THEN acc
    ELSE Decimals((r * 10) % d, d, k - 1, acc * 10 + ((r * 10) \div d))

\* math.sqrt on q >= 0: exact when q is the square of a rational, otherwise
\* rounded down to three decimals.
Sqrt(q) ==
    IF IsSquare(q.n) /\ IsSquare(q.d) THEN Rat(ISqrt(q.n), ISqrt(q.d))
    ELSE Rat(ISqrt((q.n \div q.d) * 1000000 + Decimals(q.n % q.d, q.d, 6, 0)), 1000)

\* sin of 0, 3, 6, ..., 90 degrees, times 1000, rounded.
SinTable ==
    <<0, 52, 105, 156, 208, 259, 309, 358, 407, 454, 500, 545, 588, 629, 669,
      707, 743, 777, 809, 839, 866, 891, 914, 934, 951, 966, 978, 988, 995,
      999, 1000>>

\* sin of k*3 degrees for 0 <= k < 120.
SinSteps(k) ==
    IF k <= 30 THEN Rat(SinTable[k + 1], 1000)
    ELSE IF k <= 60 THEN Rat(SinTable[60 - k + 1], 1000)
    ELSE IF k <= 90 THEN Rat(-SinTable[k - 60 + 1], 1000)
    ELSE Rat(-SinTable[120 - k + 1], 1000)

\* math.sin and math.cos of the angle a * pi, a >= 0 a rational whose
\* denominator divides 60.
Sin(a) == SinSteps(((a.n * (60 \div a.d)) % 120))
Cos(a) == SinSteps(((a.n * (60 \div a.d)) + 30) % 120)

-----------------------------------------------------------------------------
(* Results of calls.                                                       *)

Ok(v) == [ok |-> TRUE, val |-> v, err |-> "none"]
Raise(e) == [ok |-> FALSE, val |-> <<>>, err |-> e]

\* An assignment x = v followed by the statements F(x): v is evaluated once.
Bind(v, F(_)) == CHOOSE y \in {F(x) : x \in {v}} : TRUE

-----------------------------------------------------------------------------
(* Vector3D and Point3D.                                                   *)

Vector3D(x, y, z) == [x |-> x, y |-> y, z |-> z]
Point3D(x, y, z) == [x |-> x, y |-> y, z |-> z]

length(v) == Sqrt(RAdd(RAdd(RMul(v.x, v.x), RMul(v.y, v.y)), RMul(v.z, v.z)))

multiply(v, scalar) ==
    Vector3D(RMul(v.x, scalar), RMul(v.y, scalar), RMul(v.z, scalar))

\* 1 / self.length() raises ZeroDivisionError for a vector of length 0.
normalize(v) ==
    Bind(length(v), LAMBDA len :
        IF len = Zero THEN Raise("ZeroDivisionError")
        ELSE Ok(multiply(v, RDiv(One, len))))

dot(v, other) ==
    RAdd(RAdd(RMul(v.x, other.x), RMul(v.y, other.y)), RMul(v.z, other.z))

cross(v, other) ==
    Vector3D(RSub(RMul(v.y, other.z), RMul(v.z, other.y)),
             RSub(RMul(v.z, other.x), RMul(v.x, other.z)),
             RSub(RMul(v.x, other.y), RMul(v.y, other.x)))

subtract(v, other) ==
    Vector3D(RSub(v.x, other.x), RSub(v.y, other.y), RSub(v.z, other.z))

\* The vector from other to this point: this - other.
create_vector(p, other) ==
    Vector3D(RSub(p.x, other.x), RSub(p.y, other.y), RSub(p.z, other.z))

calculate_distance(p, other) == length(create_vector(p, other))

-----------------------------------------------------------------------------
(* Shape value types.                                                      *)

Line3D(start, end) == [start |-> start, end |-> end]
Plane3D(center, normal) == [center |-> center, normal |-> normal]
Circle3D(center, radius, normal) ==
    [center |-> center, radius |-> radius, normal |-> normal]
Sphere(center, radius) == [center |-> center, radius |-> radius]
Cylinder(start, end, radius, cap_type) ==
    [start |-> start, end |-> end, radius |-> radius, cap_type |-> cap_type]

CylinderCapType == {"NoCap", "Flat", "Round"}

\* Attribute lookup obj.name raises AttributeError when obj has no such
\* attribute.
HasAttrs(obj, names) == names \subseteq DOMAIN obj

-----------------------------------------------------------------------------
(* Helper functions and predicates.                                        *)

\* A sign function without the zero case: 0 counts as positive.
SignZeroPositive(x) == IF x.n < 0 THEN -1 ELSE 1

sign(x) == IF x.n < 0 THEN -1 ELSE IF x.n > 0 THEN 1 ELSE 0

same_side_of_plane(plane, p1, p2) ==
    LET left == sign(dot(create_vector(p1, plane.center), plane.normal))
        right == sign(dot(create_vector(p2, plane.center), plane.normal))
    IN  left = right

-----------------------------------------------------------------------------
(* Orthonormal basis construction.  v0 is the vector that                  *)
(* Vector3D.create_random() returns: three draws of random.random(), each  *)
(* in [0, 1).                                                              *)

gram_schmidt(n, v0) ==
    Bind(subtract(v0, multiply(n, dot(v0, n))), LAMBDA p :
    Bind(normalize(p), LAMBDA nv :
        IF ~nv.ok THEN nv
        ELSE Ok(<<nv.val, cross(n, nv.val)>>)))

-----------------------------------------------------------------------------
(* Distance from a point to a line.                                        *)

\* The ray distance: the axial term clamped on the start side only,
\* h = max(s, 0).
distance_to_line_ray(line, point) ==
    Bind(normalize(create_vector(line.end, line.start)).val, LAMBDA d :
    Bind(dot(create_vector(line.start, point), d), LAMBDA s :
    Bind(RMaxOf(s, Zero), LAMBDA h :
    Bind(length(cross(create_vector(point, line.start), d)), LAMBDA c :
        Ok(Sqrt(RAdd(RMul(h, h), RMul(c, c))))))))

distance_to_line(line, point) ==
    IF ~HasAttrs(line, {"start", "end"}) THEN Raise("AttributeError")
    ELSE Bind(normalize(create_vector(line.end, line.start)), LAMBDA nd :
         IF ~nd.ok THEN nd
         ELSE IF ~HasAttrs(point, {"x", "y", "z"}) THEN Raise("AttributeError")
         ELSE
         Bind(nd.val, LAMBDA d :
         Bind(dot(create_vector(line.start, point), d), LAMBDA s :
         Bind(dot(create_vector(point, line.end), d), LAMBDA t :
         Bind(RMaxOf(RMaxOf(s, t), Zero), LAMBDA h :
         Bind(length(cross(create_vector(point, line.start), d)), LAMBDA c :
             Ok(Sqrt(RAdd(RMul(h, h), RMul(c, c))))))))))

-----------------------------------------------------------------------------
(* Sampling.                                                               *)

\* The body of the loop "for i in range(num_points)" of
\* get_points_on_line_3d, from index i on.
RECURSIVE LineLoop(_, _, _)
LineLoop(line, num_points, i) ==
    IF i >= num_points THEN <<>>
    ELSE LET f == Rat(i, num_points)
             point == Point3D(
                 RAdd(line.start.x, RMul(RSub(line.end.x, line.start.x), f)),
                 RAdd(line.start.y, RMul(RSub(line.end.y, line.start.y), f)),
                 RAdd(line.start.z, RMul(RSub(line.end.z, line.start.z), f)))
         IN  <<point>> \o LineLoop(line, num_points, i + 1)

\* A sampling that divides by num_points - 1 and ends at line.end.
get_points_on_line_3d_closed(line, num_points) ==
    LineLoop(line, num_points - 1, 0) \o (IF num_points > 0 THEN <<line.end>> ELSE <<>>)

get_points_on_line_3d(line, num_points) == LineLoop(line, num_points, 0)

\* The loop over the angles 2*pi*i/num_points of
\* get_points_on_circumference_circle_3d, from index i on.
RECURSIVE CircleLoop(_, _, _, _, _)
CircleLoop(circle, v, w, num_points, i) ==
    IF i >= num_points THEN <<>>
    ELSE LET angle == Rat(2 * i, num_points)
             cos_a == Cos(angle)
             sin_a == Sin(angle)
             r == circle.radius
             point == Point3D(
                 RAdd(RAdd(circle.center.x, RMul(RMul(r, cos_a), v.x)),
                      RMul(RMul(r, sin_a), w.x)),
                 RAdd(RAdd(circle.center.y, RMul(RMul(r, cos_a), v.y)),
                      RMul(RMul(r, sin_a), w.y)),
                 RAdd(RAdd(circle.center.z, RMul(RMul(r, cos_a), v.z)),
                      RMul(RMul(r, sin_a), w.z)))
         IN  <<point>> \o CircleLoop(circle, v, w, num_points, i + 1)

get_points_on_circumference_circle_3d(circle, num_points, v0) ==
    Bind(normalize(circle.normal), LAMBDA nn :
        IF ~nn.ok THEN nn
        ELSE Bind(gram_schmidt(nn.val, v0), LAMBDA gs :
             IF ~gs.ok THEN gs
             ELSE Ok(CircleLoop(circle, gs.val[1], gs.val[2], num_points, 0))))

\* The point of the sphere at azimuth phi and polar angle theta.
SpherePoint(sphere, phi, theta) ==
    Point3D(RAdd(sphere.center.x, RMul(RMul(sphere.radius, Sin(theta)), Cos(phi))),
            RAdd(sphere.center.y, RMul(RMul(sphere.radius, Sin(theta)), Sin(phi))),
            RAdd(sphere.center.z, RMul(sphere.radius, Cos(theta))))

\* Whether the loop body of get_points_on_surface_sphere appends the point.
SphereKeeps(sphere, point, filter_for_pov) ==
    IF ~filter_for_pov THEN TRUE ELSE RLt(Zero, point.z)

\* The inner loop "for theta in thetas", from index j on.
RECURSIVE ThetaLoop(_, _, _, _, _)
ThetaLoop(sphere, phi, num_theta, filter_for_pov, j) ==
    IF j >= num_theta THEN <<>>
    ELSE LET point == SpherePoint(sphere, phi, Rat(j, num_theta))
             rest == ThetaLoop(sphere, phi, num_theta, filter_for_pov, j + 1)
         IN  IF SphereKeeps(sphere, point, filter_for_pov)
             THEN <<point>> \o rest
             ELSE rest

\* The outer loop "for phi in phis", from index i on.
RECURSIVE PhiLoop(_, _, _, _, _)
PhiLoop(sphere, num_phi, num_theta, filter_for_pov, i) ==
    IF i >= num_phi THEN <<>>
    ELSE ThetaLoop(sphere, Rat(2 * i, num_phi), num_theta, filter_for_pov, 0)
         \o PhiLoop(sphere, num_phi, num_theta, filter_for_pov, i + 1)

\* The same points with the loops nested the other way round.
RECURSIVE ThetaMajorLoop(_, _, _, _, _)
ThetaMajorLoop(sphere, num_phi, num_theta, filter_for_pov, k) ==
    IF k >= num_phi * num_theta THEN <<>>
    ELSE LET point == SpherePoint(sphere, Rat(2 * (k % num_phi), num_phi),
                                  Rat(k \div num_phi, num_theta))
             rest == ThetaMajorLoop(sphere, num_phi, num_theta, filter_for_pov, k + 1)
         IN  IF SphereKeeps(sphere, point, filter_for_pov)
             THEN <<point>> \o rest
             ELSE rest

get_points_on_surface_sphere_theta_major(sphere, num_phi, num_theta, filter_for_pov) ==
    IF num_phi <= 0 \/ num_theta <= 0 THEN <<>>
    ELSE ThetaMajorLoop(sphere, num_phi, num_theta, filter_for_pov, 0)

get_points_on_surface_sphere(sphere, num_phi, num_theta, filter_for_pov) ==
    PhiLoop(sphere, num_phi, num_theta, filter_for_pov, 0)

\* filter_for_pov is not passed in the Round branch: it takes its default,
\* True.
get_points_on_surface_cap(self, cap_type, center_cap, radius_cap, normal_cap, center_cylinder, resolution, v0) ==
    IF cap_type = "NoCap" THEN Ok(<<>>)
    ELSE IF cap_type = "Flat"
    THEN get_points_on_circumference_circle_3d(
             Circle3D(center_cap, radius_cap, normal_cap), resolution, v0)
    ELSE IF cap_type = "Round"
    THEN LET sphere == Sphere(center_cap, radius_cap)
             plane == Plane3D(center_cap, normal_cap)
         IN  Bind(get_points_on_surface_sphere(sphere, resolution, resolution, TRUE),
                  LAMBDA points :
             Ok(SelectSeq(points,
                  LAMBDA point : ~same_side_of_plane(plane, center_cylinder, point))))
    ELSE Raise("ValueError")

\* A call of get_points_on_surface_cap with the positional arguments
\* posargs: the function has seven parameters without defaults (self
\* included), so any other number of arguments raises TypeError before the
\* body runs.
call_get_points_on_surface_cap(posargs, v0) ==
    IF Len(posargs) # 7 THEN Raise("TypeError")
    ELSE get_points_on_surface_cap(posargs[1], posargs[2], posargs[3], posargs[4],
                                   posargs[5], posargs[6], posargs[7], v0)

\* The loop "for center in centers" of get_points_on_surface_cylinder, from
\* the k-th center on; the k-th ring's basis uses the k-th random draw.
RECURSIVE RingLoop(_, _, _, _, _, _)
RingLoop(centers, radius, normal, resolution, rnd, k) ==
    IF k > Len(centers) THEN Ok(<<>>)
    ELSE Bind(get_points_on_circumference_circle_3d(
                  Circle3D(centers[k], radius, normal), resolution, rnd[k]),
              LAMBDA ring :
         IF ~ring.ok THEN ring
         ELSE Bind(RingLoop(centers, radius, normal, resolution, rnd, k + 1),
                   LAMBDA rest :
              IF ~rest.ok THEN rest ELSE Ok(ring.val \o rest.val)))

get_points_on_surface_cylinder(cylinder, cap_type, resolution, rnd) ==
    Bind(normalize(create_vector(cylinder.end, cylinder.start)), LAMBDA nn :
    IF ~nn.ok THEN nn
    ELSE
    Bind(nn.val, LAMBDA normal :
    Bind(get_points_on_line_3d(Line3D(cylinder.start, cylinder.end), resolution),
         LAMBDA centers :
    Bind(RingLoop(centers, cylinder.radius, normal, resolution, rnd, 1),
         LAMBDA rings :
    IF ~rings.ok THEN rings
    ELSE
    Bind(call_get_points_on_surface_cap(
             <<cap_type, cylinder.start, cylinder.radius, normal, cylinder.end,
               resolution>>, rnd[Len(centers) + 1]), LAMBDA cap1 :
    IF ~cap1.ok THEN cap1
    ELSE
    Bind(call_get_points_on_surface_cap(
             <<cap_type, cylinder.end, cylinder.radius, normal, cylinder.start,
               resolution>>, rnd[Len(centers) + 2]), LAMBDA cap2 :
    IF ~cap2.ok THEN cap2
    ELSE Ok(rings.val \o cap1.val \o cap2.val)))))))

-----------------------------------------------------------------------------
(* Containment.                                                            *)

\* A containment test that excludes the boundary.
point_is_inside_sphere_strict(sphere, point) ==
    RLt(calculate_distance(sphere.center, point), sphere.radius)

point_is_inside_sphere(sphere, point) ==
    RLe(calculate_distance(sphere.center, point), sphere.radius)

\* The call on line 529 passes (point, line) to distance_to_line(line, point).
point_is_inside_cylinder(cylinder, cap_type, point) ==
    Bind(Line3D(cylinder.start, cylinder.end), LAMBDA line :
    Bind(distance_to_line(point, line), LAMBDA dist :
    IF ~dist.ok THEN dist
    ELSE IF cap_type = "Round" THEN Ok(RLe(dist.val, cylinder.radius))
    ELSE IF cap_type = "Flat" \/ cap_type = "NoCap"
    THEN Bind(normalize(create_vector(cylinder.end, cylinder.start)), LAMBDA nn :
         IF ~nn.ok THEN nn
         ELSE
         LET plane1 == Plane3D(cylinder.start, nn.val)
             plane2 == Plane3D(cylinder.end, nn.val)
             is_between_planes ==
                 /\ same_side_of_plane(plane1, point, cylinder.end)
                 /\ same_side_of_plane(plane2, point, cylinder.start)
         IN  Ok(RLe(dist.val, cylinder.radius) /\ is_between_planes))
    ELSE Raise("ValueError")))

-----------------------------------------------------------------------------
(* Styling (src/src/cinemol/style.py).  A Python value whose type the code *)
(* tests or relies on is a record with a type field: an int or a float     *)
(* (v is the number, as a rational), a Color (r, g, b are its channels),   *)
(* or one of the other objects that attribute lookup on an instance can    *)
(* return.  A float is a rational, or one of the non-finite values, which  *)
(* have denominator 0.                                                     *)

PyInt(k) == [type |-> "int", v |-> I(k)]
PyFloat(q) == [type |-> "float", v |-> q]
PyOther(type) == [type |-> type]

Inf == [n |-> 1, d |-> 0]
NegInf == [n |-> -1, d |-> 0]
NaN == [n |-> 0, d |-> 0]

\* The number of an int or float as a float value.
FloatOf(x) == x.v

\* a < b on float values: false when either is NaN.
FLt(a, b) ==
    IF a = NaN \/ b = NaN THEN FALSE
    ELSE IF a = Inf \/ b = NegInf THEN FALSE
    ELSE IF a = NegInf \/ b = Inf THEN TRUE
    ELSE RLt(a, b)

\* Python's min(a, b) and max(a, b): the second argument only when it is
\* strictly smaller (larger) than the first.
PyMin(a, b) == IF FLt(FloatOf(b), FloatOf(a)) THEN b ELSE a
PyMax(a, b) == IF FLt(FloatOf(a), FloatOf(b)) THEN b ELSE a

\* int(q) for a finite float q: truncation towards zero.
PyIntOf(q) == IF q.n >= 0 THEN q.n \div q.d ELSE -((-q.n) \div q.d)

\* A constructor that stores the channels as given.
Color_unclamped(r, g, b) ==
    IF r.type # "int" \/ g.type # "int" \/ b.type # "int" THEN Raise("TypeError")
    ELSE Ok([type |-> "Color", r |-> r.v.n, g |-> g.v.n, b |-> b.v.n])

\* Color.__init__: each channel is max(0, min(255, channel)).
Color(r, g, b) ==
    IF r.type # "int" \/ g.type # "int" \/ b.type # "int" THEN Raise("TypeError")
    ELSE Ok([type |-> "Color",
             r |-> PyMax(PyInt(0), PyMin(PyInt(255), r)).v.n,
             g |-> PyMax(PyInt(0), PyMin(PyInt(255), g)).v.n,
             b |-> PyMax(PyInt(0), PyMin(PyInt(255), b)).v.n])

\* The object that the expression Color(r, g, b) evaluates to, for ints.
NewColor(r, g, b) == Color(PyInt(r), PyInt(g), PyInt(b)).val

\* Color.diffuse: a new Color whose channels are int(channel * alpha), alpha
\* clamped by max(0, min(1, alpha)).  The result also carries self, the
\* object the method was called on as it is after the call: the method
\* assigns to none of its attributes.
diffuse(self, alpha) ==
    IF alpha.type # "float" THEN Raise("TypeError")
    ELSE LET clamped == FloatOf(PyMax(PyInt(0), PyMin(PyInt(1), alpha)))
             color == Color(PyInt(PyIntOf(RMul(I(self.r), clamped))),
                            PyInt(PyIntOf(RMul(I(self.g), clamped))),
                            PyInt(PyIntOf(RMul(I(self.b), clamped))))
         IN  [ok |-> color.ok, val |-> color.val, err |-> color.err, self |-> self]

\* getattr(obj, name, default): the attribute when the object has one of
\* that name, whatever it is, and default otherwise.
getattr(obj, name, default) == IF name \in DOMAIN obj THEN obj[name] ELSE default

\* The attributes that every instance of a subclass of ABC has besides the
\* ones its class body defines (a selection).
InheritedAttributes ==
    ("__doc__" :> PyOther("str")) @@ ("__module__" :> PyOther("str"))
    @@ ("__class__" :> PyOther("type")) @@ ("__init__" :> PyOther("method"))
    @@ ("_abc_impl" :> PyOther("_abc_data"))

\* The attributes of an instance of CoreyPaulingKoltungAtomColor: the
\* colors of the class body, the method get_color, and the inherited ones.
CoreyPaulingKoltungAtomColor ==
    ("H" :> NewColor(255, 255, 255)) @@ ("C" :> NewColor(48, 48, 48))
    @@ ("N" :> NewColor(0, 0, 255)) @@ ("O" :> NewColor(255, 0, 0))
    @@ ("P" :> NewColor(255, 165, 0)) @@ ("S" :> NewColor(255, 255, 0))
    @@ ("B" :> NewColor(245, 245, 220)) @@ ("Br" :> NewColor(139, 0, 0))
    @@ ("I" :> NewColor(148, 0, 211)) @@ ("Ti" :> NewColor(128, 128, 128))
    @@ ("Fe" :> NewColor(255, 140, 0)) @@ ("F" :> NewColor(0, 128, 0))
    @@ ("Cl" :> NewColor(0, 128, 0)) @@ ("He" :> NewColor(0, 255, 255))
    @@ ("Ne" :> NewColor(0, 255, 255)) @@ ("Ar" :> NewColor(0, 255, 255))
    @@ ("Kr" :> NewColor(0, 255, 255)) @@ ("Xe" :> NewColor(0, 255, 255))
    @@ ("Li" :> NewColor(238, 130, 238)) @@ ("Na" :> NewColor(238, 130, 238))
    @@ ("K" :> NewColor(238, 130, 238)) @@ ("Rb" :> NewColor(238, 130, 238))
    @@ ("Cs" :> NewColor(238, 130, 238)) @@ ("Fr" :> NewColor(238, 130, 238))
    @@ ("Be" :> NewColor(0, 100, 0)) @@ ("Mg" :> NewColor(0, 100, 0))
    @@ ("Ca" :> NewColor(0, 100, 0)) @@ ("Sr" :> NewColor(0, 100, 0))
    @@ ("Ba" :> NewColor(0, 100, 0)) @@ ("Ra" :> NewColor(0, 100, 0))
    @@ ("get_color" :> PyOther("method")) @@ InheritedAttributes

get_color(self, atom_symbol) == getattr(self, atom_symbol, NewColor(255, 192, 203))

\* The attributes of an instance of PubChemAtomRadius: the radii of the
\* class body in picometer, the method to_angstrom, and the inherited ones.
PubChemAtomRadius ==
    ("H" :> PyFloat(I(120))) @@ ("He" :> PyFloat(I(140))) @@ ("Li" :> PyFloat(I(182)))
    @@ ("Be" :> PyFloat(I(153))) @@ ("B" :> PyFloat(I(192))) @@ ("C" :> PyFloat(I(170)))
    @@ ("N" :> PyFloat(I(155))) @@ ("O" :> PyFloat(I(152))) @@ ("F" :> PyFloat(I(135)))
    @@ ("Ne" :> PyFloat(I(154))) @@ ("Na" :> PyFloat(I(227))) @@ ("Mg" :> PyFloat(I(173)))
    @@ ("Al" :> PyFloat(I(184))) @@ ("Si" :> PyFloat(I(210))) @@ ("P" :> PyFloat(I(180)))
    @@ ("S" :> PyFloat(I(180))) @@ ("Cl" :> PyFloat(I(175))) @@ ("Ar" :> PyFloat(I(188)))
    @@ ("K" :> PyFloat(I(275))) @@ ("Ca" :> PyFloat(I(231))) @@ ("Sc" :> PyFloat(I(211)))
    @@ ("Ti" :> PyFloat(I(187))) @@ ("V" :> PyFloat(I(179))) @@ ("Cr" :> PyFloat(I(189)))
    @@ ("Mn" :> PyFloat(I(197))) @@ ("Fe" :> PyFloat(I(194))) @@ ("Co" :> PyFloat(I(192)))
    @@ ("Ni" :> PyFloat(I(163))) @@ ("Cu" :> PyFloat(I(140))) @@ ("Zn" :> PyFloat(I(139)))
    @@ ("Ga" :> PyFloat(I(187))) @@ ("Ge" :> PyFloat(I(211))) @@ ("As" :> PyFloat(I(185)))
    @@ ("Se" :> PyFloat(I(190))) @@ ("Br" :> PyFloat(I(183))) @@ ("Kr" :> PyFloat(I(202)))
    @@ ("Rb" :> PyFloat(I(303))) @@ ("Sr" :> PyFloat(I(249))) @@ ("Y" :> PyFloat(I(219)))
    @@ ("Zr" :> PyFloat(I(186))) @@ ("Nb" :> PyFloat(I(207))) @@ ("Mo" :> PyFloat(I(209)))
    @@ ("Tc" :> PyFloat(I(209))) @@ ("Ru" :> PyFloat(I(207))) @@ ("Rh" :> PyFloat(I(195)))
    @@ ("Pd" :> PyFloat(I(202))) @@ ("Ag" :> PyFloat(I(172))) @@ ("Cd" :> PyFloat(I(158)))
    @@ ("In" :> PyFloat(I(193))) @@ ("Sn" :> PyFloat(I(217))) @@ ("Sb" :> PyFloat(I(206)))
    @@ ("Te" :> PyFloat(I(206))) @@ ("I" :> PyFloat(I(198))) @@ ("Xe" :> PyFloat(I(216)))
    @@ ("Cs" :> PyFloat(I(343))) @@ ("Ba" :> PyFloat(I(268))) @@ ("Lu" :> PyFloat(I(221)))
    @@ ("Hf" :> PyFloat(I(212))) @@ ("Ta" :> PyFloat(I(217))) @@ ("W" :> PyFloat(I(210)))
    @@ ("Re" :> PyFloat(I(217))) @@ ("Os" :> PyFloat(I(216))) @@ ("Ir" :> PyFloat(I(202)))
    @@ ("Pt" :> PyFloat(I(209))) @@ ("Au" :> PyFloat(I(166))) @@ ("Hg" :> PyFloat(I(209)))
    @@ ("Tl" :> PyFloat(I(196))) @@ ("Pb" :> PyFloat(I(202))) @@ ("Bi" :> PyFloat(I(207)))
    @@ ("Po" :> PyFloat(I(197))) @@ ("At" :> PyFloat(I(202))) @@ ("Rn" :> PyFloat(I(220)))
    @@ ("Fr" :> PyFloat(I(348))) @@ ("Ra" :> PyFloat(I(283)))
    @@ ("to_angstrom" :> PyOther("method")) @@ InheritedAttributes

\* value / 100 raises TypeError when the attribute found is not a number.
to_angstrom(self, atom_symbol) ==
    LET value == getattr(self, atom_symbol, PyFloat(I(170)))
    IN  IF value.type \notin {"int", "float"} THEN Raise("TypeError")
        ELSE Ok(PyFloat(RDiv(FloatOf(value), I(100))))

-----------------------------------------------------------------------------
(* Input sets.                                                             *)

Coords == -1 .. MaxCoord
Points == {Point3D(I(x), I(y), I(z)) : x \in Coords, y \in Coords, z \in Coords}
Origin == Point3D(Zero, Zero, Zero)
Corner == Point3D(I(1), I(0), I(-1))
\* Plane normals: axis vectors, diagonals, and a non-unit normal.
PlaneNormals ==
    {Vector3D(I(0), I(0), I(1)), Vector3D(I(1), I(0), I(0)),
     Vector3D(I(1), I(-1), I(0)), Vector3D(I(1), I(2), I(2))}
PlaneCenters == {Origin, Corner}

SquaredLength(v) == dot(v, v)

\* Lines from Origin or Corner to a grid point, of nonzero rational length
\* (so that the unit direction is an exact rational vector).
ExactLines ==
    {l \in {Line3D(s, e) : s \in {Origin, Corner}, e \in Points} :
        /\ l.start # l.end
        /\ IsSquare(SquaredLength(create_vector(l.end, l.start)).n)}

\* The examples of the specification (section 8).
ExampleLine == Line3D(Origin, Point3D(I(10), Zero, Zero))
ExampleAxis == Line3D(Origin, Point3D(Zero, Zero, I(10)))
ExamplePoints == {Point3D(I(1), Zero, I(5)), Point3D(I(1), Zero, I(11))}

SampledLines ==
    {Line3D(s, e) : s \in {Origin, Corner}, e \in Points} \cup {ExampleLine}

Radii == {I(r) : r \in 1 .. MaxRadius}
Resolutions == 0 .. MaxRes
\* Line and sphere sampling are also called with a negative resolution, and
\* sphere sampling with a negative radius: the parameters are plain ints and
\* floats that no constructor validates.
SignedResolutions == Resolutions \cup {-1}
SignedRadii == Radii \cup {I(-1)}
\* Line sampling also takes the specification's example, num_points = 5.
LineResolutions == SignedResolutions \cup {5}

\* Values of Vector3D.create_random(): each component is a value of
\* random.random(), which lies in [0, 1) and can be 0.0.
RandomComponents == {Zero, Rat(1, 2)}
RandomVectors ==
    {Vector3D(x, y, z) : x \in RandomComponents, y \in RandomComponents,
                         z \in RandomComponents}

\* Unit vectors with rational components.
UnitVectors ==
    {Vector3D(Zero, Zero, One), Vector3D(One, Zero, Zero), Vector3D(Zero, I(-1), Zero),
     Vector3D(Rat(1, 3), Rat(2, 3), Rat(2, 3)), Vector3D(Rat(3, 5), Zero, Rat(-4, 5))}

\* Circle normals: nonzero, not necessarily of unit length.
CircleNormals ==
    {Vector3D(Zero, Zero, One), Vector3D(I(2), Zero, Zero),
     Vector3D(I(1), I(2), I(2)), Vector3D(Zero, I(-1), Zero)}

SphereCenters == {p \in Points : p.x = Zero}

\* The containment examples of the specification (section 8): the sphere of
\* radius 5 at the origin and the points (3,0,0), (5,0,0), (6,0,0).
ExampleSphere == Sphere(Origin, I(5))
ExampleSpherePoints ==
    {Point3D(I(3), Zero, Zero), Point3D(I(5), Zero, Zero), Point3D(I(6), Zero, Zero)}
\* Radii of the spheres tested for containment: whole, fractional, the
\* example's, and a negative one (Sphere does not validate its radius).
ContainmentRadii == Radii \cup {Rat(3, 2), ExampleSphere.radius, I(-1)}

\* The draws offered to a cap sampling and to a whole-cylinder sampling.
CapDraws ==
    {Vector3D(Rat(1, 2), Zero, Zero), Vector3D(Zero, Zero, Rat(1, 2)),
     Vector3D(Rat(1, 2), Rat(1, 2), Rat(1, 2))}
CylinderDraws ==
    {Vector3D(Rat(1, 2), Rat(1, 2), Zero), Vector3D(Rat(1, 2), Rat(1, 2), Rat(1, 2))}
CylinderLines == {l \in ExactLines : l.start = Origin}
\* Cap-type arguments: the members of the enumeration and a value that is
\* not one of them.
CapTypeValues == CylinderCapType \cup {"Square"}
CylinderResolutions == 0 .. MaxCylRes

\* Constructor arguments of a Color: ints below, in and above 0..255, and a
\* float (which the constructor rejects).
ChannelArgs == {PyInt(k) : k \in {-1, 0, 100, 255, 256}} \cup {PyFloat(One)}
\* Arguments of diffuse: floats below, in and above [0, 1], the non-finite
\* floats, and an int (which diffuse rejects).
Alphas ==
    {PyFloat(q) : q \in {I(-1), Zero, Rat(1, 2), Rat(3, 4), One, Rat(3, 2),
                         Inf, NegInf, NaN}}
    \cup {PyInt(1)}

\* The element symbols that each table lists.
CpkElements ==
    {s \in DOMAIN CoreyPaulingKoltungAtomColor :
        CoreyPaulingKoltungAtomColor[s].type = "Color"}
PubChemElements ==
    {s \in DOMAIN PubChemAtomRadius : PubChemAtomRadius[s].type = "float"}
\* Atom symbols looked up: every listed element, strings that name no
\* element, and strings that name another attribute of the scheme objects.
AtomSymbols ==
    CpkElements \cup PubChemElements \cup {"Xx", "", "D", "c"}
    \cup {"get_color", "to_angstrom"} \cup DOMAIN InheritedAttributes

-----------------------------------------------------------------------------
(* The state machine: a caller that performs one kernel call at a time.    *)
(* op = "idle" between calls; a call step records the function called,     *)
(* its arguments and its result; Return hands control back to the caller.  *)

NoArgs == [none |-> TRUE]

\* The threads of the concurrent callers, and the frame of a thread that has
\* made no call.
Threads == {1, 2}
IdleFrame ==
    [pc |-> "idle", op |-> "none", args |-> NoArgs, n |-> 0, loc |-> <<>>,
     result |-> Ok(<<>>), random_at_call |-> 0, random_at_return |-> 0]

\* The sequential caller runs alone: no shared objects, no thread in a call.
Init ==
    /\ op = "idle"
    /\ args = NoArgs
    /\ result = Ok(<<>>)
    /\ heap = NoArgs
    /\ random = [stream |-> <<>>, pos |-> 0]
    /\ frames = [t \in Threads |-> IdleFrame]

Do_same_side_of_plane ==
    /\ op = "idle"
    /\ UNCHANGED conc_vars
    /\ \E c \in PlaneCenters, n \in PlaneNormals, p1 \in Points, p2 \in Points :
        /\ op' = "same_side_of_plane"
        /\ args' = [plane |-> Plane3D(c, n), p1 |-> p1, p2 |-> p2]
        /\ result' = Ok(same_side_of_plane(Plane3D(c, n), p1, p2))

Do_gram_schmidt ==
    /\ op = "idle"
    /\ UNCHANGED conc_vars
    /\ \E n \in UnitVectors, v0 \in RandomVectors :
        /\ op' = "gram_schmidt"
        /\ args' = [n |-> n, v0 |-> v0]
        /\ result' = gram_schmidt(n, v0)

Do_distance_to_line ==
    /\ op = "idle"
    /\ UNCHANGED conc_vars
    /\ \E line \in ExactLines, point \in Points :
        /\ op' = "distance_to_line"
        /\ args' = [line |-> line, point |-> point]
        /\ result' = distance_to_line(line, point)

Do_get_points_on_line_3d ==
    /\ op = "idle"
    /\ UNCHANGED conc_vars
    /\ \E line \in SampledLines, num_points \in LineResolutions :
        /\ op' = "get_points_on_line_3d"
        /\ args' = [line |-> line, num_points |-> num_points]
        /\ result' = Ok(get_points_on_line_3d(line, num_points))

Do_get_points_on_circumference_circle_3d ==
    /\ op = "idle"
    /\ UNCHANGED conc_vars
    /\ \E center \in PlaneCenters, radius \in Radii, normal \in CircleNormals,
          num_points \in Resolutions, v0 \in RandomVectors :
        /\ op' = "get_points_on_circumference_circle_3d"
        /\ args' = [circle |-> Circle3D(center, radius, normal),
                    num_points |-> num_points, v0 |-> v0]
        /\ result' = get_points_on_circumference_circle_3d(
                         Circle3D(center, radius, normal), num_points, v0)

Do_get_points_on_surface_sphere ==
    /\ op = "idle"
    /\ UNCHANGED conc_vars
    /\ \E center \in SphereCenters, radius \in SignedRadii,
          num_phi \in SignedResolutions, num_theta \in SignedResolutions,
          filter_for_pov \in BOOLEAN :
        /\ op' = "get_points_on_surface_sphere"
        /\ args' = [sphere |-> Sphere(center, radius), num_phi |-> num_phi,
                    num_theta |-> num_theta, filter_for_pov |-> filter_for_pov]
        /\ result' = Ok(get_points_on_surface_sphere(
                            Sphere(center, radius), num_phi, num_theta, filter_for_pov))

\* A cap of the cylinder with axis line: far_is_end selects the start cap
\* (far reference = line.end), otherwise the end cap (far reference =
\* line.start); the normal is the unit axis, as the cylinder sampling passes it.
Do_get_points_on_surface_cap ==
    /\ op = "idle"
    /\ UNCHANGED conc_vars
    /\ \E line \in ExactLines, far_is_end \in BOOLEAN, cap_type \in CapTypeValues,
          radius \in Radii, resolution \in Resolutions, v0 \in CapDraws :
        LET center_cap == IF far_is_end THEN line.start ELSE line.end
            center_cylinder == IF far_is_end THEN line.end ELSE line.start
            normal_cap == normalize(create_vector(line.end, line.start)).val
        IN  /\ op' = "get_points_on_surface_cap"
            /\ args' = [cap_type |-> cap_type, center_cap |-> center_cap,
                        radius_cap |-> radius, normal_cap |-> normal_cap,
                        center_cylinder |-> center_cylinder,
                        resolution |-> resolution, v0 |-> v0]
            /\ result' = call_get_points_on_surface_cap(
                             <<"self", cap_type, center_cap, radius, normal_cap,
                               center_cylinder, resolution>>, v0)

Do_get_points_on_surface_cylinder ==
    /\ op = "idle"
    /\ UNCHANGED conc_vars
    /\ \E line \in CylinderLines, radius \in Radii, cap_type \in CylinderCapType,
          resolution \in CylinderResolutions :
        \E rnd \in [1 .. resolution + 2 -> CylinderDraws] :
            LET cylinder == Cylinder(line.start, line.end, radius, cap_type)
            IN  /\ op' = "get_points_on_surface_cylinder"
                /\ args' = [cylinder |-> cylinder, cap_type |-> cap_type,
                            resolution |-> resolution, rnd |-> rnd]
                /\ result' = get_points_on_surface_cylinder(
                                 cylinder, cap_type, resolution, rnd)

Do_point_is_inside_cylinder ==
    /\ op = "idle"
    /\ UNCHANGED conc_vars
    /\ \E line \in ExactLines \cup {ExampleAxis}, radius \in Radii,
          cap_type \in CapTypeValues, point \in Points \cup ExamplePoints :
        LET cylinder == Cylinder(line.start, line.end, radius, cap_type)
        IN  /\ op' = "point_is_inside_cylinder"
            /\ args' = [cylinder |-> cylinder, cap_type |-> cap_type, point |-> point]
            /\ result' = point_is_inside_cylinder(cylinder, cap_type, point)

Do_point_is_inside_sphere ==
    /\ op = "idle"
    /\ UNCHANGED conc_vars
    /\ \E center \in PlaneCenters, radius \in ContainmentRadii,
          point \in Points \cup ExampleSpherePoints :
        /\ op' = "point_is_inside_sphere"
        /\ args' = [sphere |-> Sphere(center, radius), point |-> point]
        /\ result' = Ok(point_is_inside_sphere(Sphere(center, radius), point))

Do_Color ==
    /\ op = "idle"
    /\ UNCHANGED conc_vars
    /\ \E r \in ChannelArgs, g \in ChannelArgs, b \in ChannelArgs :
        /\ op' = "Color"
        /\ args' = [r |-> r, g |-> g, b |-> b]
        /\ result' = Color(r, g, b)

\* diffuse is called on the Color that the previous call (the constructor or
\* an earlier diffuse) returned.
Do_diffuse ==
    /\ op \in {"Color", "diffuse"}
    /\ UNCHANGED conc_vars
    /\ result.ok
    /\ \E alpha \in Alphas :
        /\ op' = "diffuse"
        /\ args' = [self |-> result.val, alpha |-> alpha]
        /\ result' = diffuse(result.val, alpha)

Do_get_color ==
    /\ op = "idle"
    /\ UNCHANGED conc_vars
    /\ \E atom_symbol \in AtomSymbols :
        /\ op' = "get_color"
        /\ args' = [atom_symbol |-> atom_symbol]
        /\ result' = Ok(get_color(CoreyPaulingKoltungAtomColor, atom_symbol))

Do_to_angstrom ==
    /\ op = "idle"
    /\ UNCHANGED conc_vars
    /\ \E atom_symbol \in AtomSymbols :
        /\ op' = "to_angstrom"
        /\ args' = [atom_symbol |-> atom_symbol]
        /\ result' = to_angstrom(PubChemAtomRadius, atom_symbol)

Return ==
    /\ op # "idle"
    /\ UNCHANGED conc_vars
    /\ op' = "idle"
    /\ args' = NoArgs
    /\ result' = Ok(<<>>)

Next ==
    \/ Do_same_side_of_plane
    \/ Do_gram_schmidt
    \/ Do_distance_to_line
    \/ Do_get_points_on_line_3d
    \/ Do_get_points_on_circumference_circle_3d
    \/ Do_get_points_on_surface_sphere
    \/ Do_get_points_on_surface_cap
    \/ Do_get_points_on_surface_cylinder
    \/ Do_point_is_inside_cylinder
    \/ Do_point_is_inside_sphere
    \/ Do_Color
    \/ Do_diffuse
    \/ Do_get_color
    \/ Do_to_angstrom
    \/ Return

Spec == Init /\ [][Next]_vars

-----------------------------------------------------------------------------
(* Concurrent callers.  Each thread makes one call.  The arguments are     *)
(* objects of the shared heap, passed by reference: a statement that reads *)
(* an attribute of an argument reads the heap as it is when the statement  *)
(* runs.  A frame keeps, besides the thread's position (pc), its int       *)
(* argument (n) and its local variables (loc), the values the argument     *)
(* objects had when the call was made (args) and the position of the       *)
(* random source at the call and at the return.                            *)

\* random.random(): the next value of the source's stream; the source moves
\* on by one.
random_random(source) ==
    [value |-> source.stream[source.pos + 1],
     source |-> [source EXCEPT !.pos = @ + 1]]

\* A normalize that scales the vector it is called on.
normalize_receiver_in_place(v) ==
    IF length(v) = Zero THEN v ELSE multiply(v, RDiv(One, length(v)))

\* The vector that normalize was called on, as it is after the call:
\* normalize and multiply build a new Vector3D and assign to no attribute.
normalize_receiver(v) == v

\* The shared objects: a plane with a non-unit normal, points, a line of
\* length 1, a sphere, a non-unit vector v and a unit vector n.
SharedHeaps ==
    {[plane |-> Plane3D(c, Vector3D(I(1), I(2), I(2))),
      p1 |-> a,
      p2 |-> Corner,
      line |-> Line3D(c, Point3D(c.x, c.y, RAdd(c.z, One))),
      point |-> a,
      sphere |-> Sphere(c, I(2)),
      v |-> Vector3D(I(1), I(2), I(2)),
      n |-> IF c = Origin THEN Vector3D(Zero, Zero, One)
                          ELSE Vector3D(Rat(1, 3), Rat(2, 3), Rat(2, 3))] :
        c \in PlaneCenters,
        a \in {Point3D(I(1), I(1), I(1)), Point3D(I(-1), I(0), I(1))}}

\* The values that the source yields, in order, for two seeds.
RandomStreams ==
    {<<Rat(1, 2), Zero, Zero, Zero, Rat(1, 2), Rat(1, 2)>>,
     <<Zero, Rat(1, 2), Rat(1, 2), Rat(1, 2), Zero, Zero>>}

ConcOps ==
    {"same_side_of_plane", "distance_to_line", "get_points_on_line_3d",
     "get_points_on_surface_sphere", "point_is_inside_sphere", "normalize",
     "gram_schmidt"}
\* The operations that do not reach gram_schmidt.
PureOps == ConcOps \ {"gram_schmidt"}

\* The shared objects that a call of o takes as arguments.
ObjectArgs(o) ==
    CASE o = "same_side_of_plane" -> {"plane", "p1", "p2"}
      [] o = "distance_to_line" -> {"line", "point"}
      [] o = "get_points_on_line_3d" -> {"line"}
      [] o = "get_points_on_surface_sphere" -> {"sphere"}
      [] o = "point_is_inside_sphere" -> {"sphere", "point"}
      [] o = "normalize" -> {"v"}
      [] o = "gram_schmidt" -> {"n"}

\* The int argument of a call of o: the resolution of a sampling.
IntArgs(o) ==
    IF o \in {"get_points_on_line_3d", "get_points_on_surface_sphere"}
    THEN 1 .. 2 ELSE {0}

\* The first statement of o.
FirstPc(o) ==
    CASE o = "same_side_of_plane" -> "left"
      [] o = "distance_to_line" -> "d"
      [] o \in {"get_points_on_line_3d", "get_points_on_surface_sphere"} -> "read"
      [] o \in {"point_is_inside_sphere", "normalize"} -> "call"
      [] o = "gram_schmidt" -> "draw"

\* The frame f moved to statement pc with local variables loc, and the
\* frame f at its return statement with result res.
Advance(f, pc, loc) == [f EXCEPT !.pc = pc, !.loc = loc]
Finish(f, res) ==
    [f EXCEPT !.pc = "done", !.loc = <<>>, !.result = res,
              !.random_at_return = random.pos]

ConcInit ==
    /\ op = "idle"
    /\ args = NoArgs
    /\ result = Ok(<<>>)
    /\ heap \in SharedHeaps
    /\ random \in {[stream |-> st, pos |-> 0] : st \in RandomStreams}
    /\ frames = [t \in Threads |-> IdleFrame]

\* Thread t calls one of the operations on the shared objects.
T_call(t) ==
    /\ frames[t].pc = "idle"
    /\ \E o \in ConcOps :
        \E n \in IntArgs(o) :
            frames' = [frames EXCEPT ![t] =
                [pc |-> FirstPc(o), op |-> o,
                 args |-> [k \in ObjectArgs(o) |-> heap[k]], n |-> n,
                 loc |-> <<>>, result |-> Ok(<<>>),
                 random_at_call |-> random.pos, random_at_return |-> 0]]
    /\ UNCHANGED <<heap, random>>
    /\ UNCHANGED seq_vars

\* same_side_of_plane, statement "left = ...".
T_same_side_left(t) ==
    /\ frames[t].op = "same_side_of_plane"
    /\ frames[t].pc = "left"
    /\ frames' = [frames EXCEPT ![t] = Advance(@, "right",
           <<sign(dot(create_vector(heap.p1, heap.plane.center), heap.plane.normal))>>)]
    /\ UNCHANGED <<heap, random>>
    /\ UNCHANGED seq_vars

\* same_side_of_plane, statements "right = ..." and "return left == right".
T_same_side_right(t) ==
    /\ frames[t].op = "same_side_of_plane"
    /\ frames[t].pc = "right"
    /\ LET left == frames[t].loc[1]
           right == sign(dot(create_vector(heap.p2, heap.plane.center),
                             heap.plane.normal))
       IN  frames' = [frames EXCEPT ![t] = Finish(@, Ok(left = right))]
    /\ UNCHANGED <<heap, random>>
    /\ UNCHANGED seq_vars

\* distance_to_line, statement "d = ...".
T_distance_direction(t) ==
    /\ frames[t].op = "distance_to_line"
    /\ frames[t].pc = "d"
    /\ LET nd == normalize(create_vector(heap.line.end, heap.line.start))
       IN  frames' = [frames EXCEPT ![t] =
               IF nd.ok THEN Advance(@, "h", <<nd.val>>) ELSE Finish(@, nd)]
    /\ UNCHANGED <<heap, random>>
    /\ UNCHANGED seq_vars

\* distance_to_line, the statements from "s = ..." to the return.
T_distance_combine(t) ==
    /\ frames[t].op = "distance_to_line"
    /\ frames[t].pc = "h"
    /\ LET d == frames[t].loc[1]
           s == dot(create_vector(heap.line.start, heap.point), d)
           u == dot(create_vector(heap.point, heap.line.end), d)
           h == RMaxOf(RMaxOf(s, u), Zero)
           c == length(cross(create_vector(heap.point, heap.line.start), d))
       IN  frames' = [frames EXCEPT ![t] =
               Finish(@, Ok(Sqrt(RAdd(RMul(h, h), RMul(c, c)))))]
    /\ UNCHANGED <<heap, random>>
    /\ UNCHANGED seq_vars

\* get_points_on_line_3d, the statements before the loop: the coordinates
\* of the end points are read into local variables, points = [].
T_line_read(t) ==
    /\ frames[t].op = "get_points_on_line_3d"
    /\ frames[t].pc = "read"
    /\ frames' = [frames EXCEPT ![t] =
           Advance(@, "loop", <<heap.line.start, heap.line.end, <<>>>>)]
    /\ UNCHANGED <<heap, random>>
    /\ UNCHANGED seq_vars

\* get_points_on_line_3d, one iteration of the loop, or the return after
\* the last one.
T_line_loop(t) ==
    /\ frames[t].op = "get_points_on_line_3d"
    /\ frames[t].pc = "loop"
    /\ LET s == frames[t].loc[1]
           e == frames[t].loc[2]
           points == frames[t].loc[3]
           i == Len(points)
           f == Rat(i, frames[t].n)
           point == Point3D(RAdd(s.x, RMul(RSub(e.x, s.x), f)),
                            RAdd(s.y, RMul(RSub(e.y, s.y), f)),
                            RAdd(s.z, RMul(RSub(e.z, s.z), f)))
       IN  frames' = [frames EXCEPT ![t] =
               IF i >= frames[t].n THEN Finish(@, Ok(points))
               ELSE Advance(@, "loop", <<s, e, Append(points, point)>>)]
    /\ UNCHANGED <<heap, random>>
    /\ UNCHANGED seq_vars

\* get_points_on_surface_sphere (num_phi = num_theta = n, not filtered), the
\* statements before the loops: center and radius are read into local
\* variables, points = [].
T_sphere_read(t) ==
    /\ frames[t].op = "get_points_on_surface_sphere"
    /\ frames[t].pc = "read"
    /\ frames' = [frames EXCEPT ![t] =
           Advance(@, "loop",
                   <<Sphere(heap.sphere.center, heap.sphere.radius), 0, <<>>>>)]
    /\ UNCHANGED <<heap, random>>
    /\ UNCHANGED seq_vars

\* get_points_on_surface_sphere, one iteration of the loop over phis, or
\* the return after the last one.
T_sphere_loop(t) ==
    /\ frames[t].op = "get_points_on_surface_sphere"
    /\ frames[t].pc = "loop"
    /\ LET local == frames[t].loc[1]
           i == frames[t].loc[2]
           points == frames[t].loc[3]
           n == frames[t].n
       IN  frames' = [frames EXCEPT ![t] =
               IF i >= n THEN Finish(@, Ok(points))
               ELSE Advance(@, "loop",
                        <<local, i + 1,
                          points \o ThetaLoop(local, Rat(2 * i, n), n, FALSE, 0)>>)]
    /\ UNCHANGED <<heap, random>>
    /\ UNCHANGED seq_vars

\* point_is_inside_sphere: its one statement.
T_point_is_inside_sphere(t) ==
    /\ frames[t].op = "point_is_inside_sphere"
    /\ frames[t].pc = "call"
    /\ frames' = [frames EXCEPT ![t] =
           Finish(@, Ok(point_is_inside_sphere(heap.sphere, heap.point)))]
    /\ UNCHANGED <<heap, random>>
    /\ UNCHANGED seq_vars

\* Vector3D.normalize on the shared vector v: its one statement.
T_normalize(t) ==
    /\ frames[t].op = "normalize"
    /\ frames[t].pc = "call"
    /\ frames' = [frames EXCEPT ![t] = Finish(@, normalize(heap.v))]
    /\ heap' = [heap EXCEPT !.v = normalize_receiver(heap.v)]
    /\ UNCHANGED random
    /\ UNCHANGED seq_vars

\* gram_schmidt, inside Vector3D.create_random(): one of the three calls of
\* random.random().
T_create_random(t) ==
    /\ frames[t].op = "gram_schmidt"
    /\ frames[t].pc = "draw"
    /\ random.pos < Len(random.stream)
    /\ LET drawn == random_random(random)
           values == Append(frames[t].loc, drawn.value)
       IN  /\ random' = drawn.source
           /\ frames' = [frames EXCEPT ![t] =
                  Advance(@, IF Len(values) = 3 THEN "project" ELSE "draw", values)]
    /\ UNCHANGED heap
    /\ UNCHANGED seq_vars

\* gram_schmidt, the statements after the draw.
T_gram_schmidt_project(t) ==
    /\ frames[t].op = "gram_schmidt"
    /\ frames[t].pc = "project"
    /\ LET v0 == Vector3D(frames[t].loc[1], frames[t].loc[2], frames[t].loc[3])
       IN  frames' = [frames EXCEPT ![t] = Finish(@, gram_schmidt(heap.n, v0))]
    /\ UNCHANGED <<heap, random>>
    /\ UNCHANGED seq_vars

ConcNext ==
    \E t \in Threads :
        \/ T_call(t)
        \/ T_same_side_left(t)
        \/ T_same_side_right(t)
        \/ T_distance_direction(t)
        \/ T_distance_combine(t)
        \/ T_line_read(t)
        \/ T_line_loop(t)
        \/ T_sphere_read(t)
        \/ T_sphere_loop(t)
        \/ T_point_is_inside_sphere(t)
        \/ T_normalize(t)
        \/ T_create_random(t)
        \/ T_gram_schmidt_project(t)

ConcSpec == ConcInit /\ [][ConcNext]_vars

-----------------------------------------------------------------------------
(* Quantities the properties below are stated with.                        *)

Sq(a) == RMul(a, a)

\* |a| rounded down to three decimals.
RoundDown3(a) ==
    Rat((IAbs(a.n) \div a.d) * 1000 + Decimals(IAbs(a.n) % a.d, a.d, 3, 0), 1000)

\* The squared distance between p and q, each coordinate difference rounded
\* to three decimals.
DistSqRounded(p, q) ==
    RAdd(RAdd(Sq(RoundDown3(RSub(p.x, q.x))), Sq(RoundDown3(RSub(p.y, q.y)))),
         Sq(RoundDown3(RSub(p.z, q.z))))

\* The position of point along line as a fraction of the segment:
\* 0 at line.start, 1 at line.end.
AxisParam(line, point) ==
    RDiv(dot(create_vector(point, line.start), create_vector(line.end, line.start)),
         SquaredLength(create_vector(line.end, line.start)))

\* The squared perpendicular distance of point to the infinite line.
PerpSq(line, point) ==
    RSub(SquaredLength(create_vector(point, line.start)),
         RMul(Sq(AxisParam(line, point)),
              SquaredLength(create_vector(line.end, line.start))))

BeyondEnd(line, point) == RLt(One, AxisParam(line, point))
BeforeStart(line, point) == RLt(AxisParam(line, point), Zero)

\* The squared distance of point to the nearest point of the segment.
SegmentDistSq(line, point) ==
    IF BeforeStart(line, point) THEN SquaredLength(create_vector(point, line.start))
    ELSE IF BeyondEnd(line, point) THEN SquaredLength(create_vector(point, line.end))
    ELSE PerpSq(line, point)

\* The squared distance of the claimed ray semantics: clamped before
\* line.start only.
RayDistSq(line, point) ==
    IF BeforeStart(line, point) THEN SquaredLength(create_vector(point, line.start))
    ELSE PerpSq(line, point)

\* Whether point lies strictly between the planes perpendicular to the axis
\* at the cylinder's start and end.
BetweenEndPlanes(cylinder, point) ==
    /\ RLt(Zero, AxisParam(Line3D(cylinder.start, cylinder.end), point))
    /\ RLt(AxisParam(Line3D(cylinder.start, cylinder.end), point), One)

-----------------------------------------------------------------------------
(* C1.  point_is_inside_cylinder with cap type Flat or NoCap returns a     *)
(* boolean for every cylinder with start # end and every point: true       *)
(* exactly when the point's distance to the axis is <= radius and the      *)
(* point lies between the planes perpendicular to the axis at start and    *)
(* end.  The code raises AttributeError instead (distance_to_line is       *)
(* called with its arguments swapped), so this is violated.                *)
C1_InsideFlatCylinder ==
    (op = "point_is_inside_cylinder" /\ args.cap_type \in {"Flat", "NoCap"}) =>
        /\ result.ok
        /\ result.val \in BOOLEAN
        /\ result.val =
             (/\ RLe(PerpSq(Line3D(args.cylinder.start, args.cylinder.end), args.point),
                     Sq(args.cylinder.radius))
              /\ BetweenEndPlanes(args.cylinder, args.point))

-----------------------------------------------------------------------------
(* C2 as claimed.  distance_to_line is a ray distance from line.start: for *)
(* a point whose projection lies beyond line.end the result is its         *)
(* perpendicular distance to the infinite line.  Violated: the code also   *)
(* clamps at the far end (h = max(s, t, 0)).                               *)
C2_RayDistance ==
    op = "distance_to_line" =>
        /\ result.ok
        /\ Approx(Sq(result.val), RayDistSq(args.line, args.point))

(* C2 as amended.  distance_to_line is the symmetric point-to-segment      *)
(* distance: the distance to line.start for a point whose projection lies  *)
(* before line.start, the distance to line.end for a point whose           *)
(* projection lies beyond line.end, and the perpendicular distance to the  *)
(* line otherwise.                                                         *)
C2_SegmentDistance ==
    op = "distance_to_line" =>
        /\ result.ok
        /\ Approx(Sq(result.val), SegmentDistSq(args.line, args.point))

\* A call on a point beyond line.end whose result is its distance to
\* line.end, which differs from its perpendicular distance to the line.
C2_Witness ==
    /\ op = "distance_to_line"
    /\ BeyondEnd(args.line, args.point)
    /\ result.ok
    /\ Approx(Sq(result.val), SquaredLength(create_vector(args.point, args.line.end)))
    /\ ~Approx(Sq(result.val), PerpSq(args.line, args.point))

-----------------------------------------------------------------------------
(* C3.  For every cylinder with start # end, every cap type and every      *)
(* resolution >= 1, get_points_on_surface_cylinder returns a sequence:     *)
(* resolution rings of resolution points, the k-th ring in the plane       *)
(* through the k-th axis center perpendicular to the axis, followed by the *)
(* caps; NoCap yields resolution^2 points, Flat resolution^2 +             *)
(* 2*resolution.  Violated: the call of get_points_on_surface_cap passes   *)
(* six arguments to a function of seven parameters and raises TypeError.   *)
C3_CylinderSurface ==
    (op = "get_points_on_surface_cylinder" /\ args.resolution >= 1) =>
        /\ result.ok
        /\ args.cap_type = "NoCap" =>
               Len(result.val) = args.resolution * args.resolution
        /\ args.cap_type = "Flat" =>
               Len(result.val) = args.resolution * args.resolution + 2 * args.resolution
        /\ Len(result.val) >= args.resolution * args.resolution
        /\ \A k \in 1 .. args.resolution * args.resolution :
               Approx(dot(create_vector(
                              result.val[k],
                              get_points_on_line_3d(
                                  Line3D(args.cylinder.start, args.cylinder.end),
                                  args.resolution)[((k - 1) \div args.resolution) + 1]),
                          create_vector(args.cylinder.end, args.cylinder.start)),
                      Zero)

-----------------------------------------------------------------------------
(* C4.  Cap sampling: NoCap returns no points; Flat returns the            *)
(* circumference sampling of the cap circle; Round returns exactly the     *)
(* points of the sphere sampling that is not filtered for the point of     *)
(* view which are not on the far end-center's side of the cap plane.       *)
(* Violated: the Round branch samples the sphere with filter_for_pov at    *)
(* its default True, so points with z <= 0 are dropped as well.            *)
C4_CapSampling ==
    op = "get_points_on_surface_cap" =>
        /\ args.cap_type = "NoCap" => result = Ok(<<>>)
        /\ args.cap_type = "Flat" =>
               result = get_points_on_circumference_circle_3d(
                            Circle3D(args.center_cap, args.radius_cap, args.normal_cap),
                            args.resolution, args.v0)
        /\ args.cap_type = "Round" =>
               /\ result.ok
               /\ result.val =
                    SelectSeq(
                        get_points_on_surface_sphere(
                            Sphere(args.center_cap, args.radius_cap),
                            args.resolution, args.resolution, FALSE),
                        LAMBDA point :
                            ~same_side_of_plane(
                                 Plane3D(args.center_cap, args.normal_cap),
                                 args.center_cylinder, point))

-----------------------------------------------------------------------------
(* C5.  With filter_for_pov = True, get_points_on_surface_sphere never     *)
(* returns a point whose z relative to the sphere's center is <= 0, and    *)
(* returns every generated point whose local z is > 0.  Violated: the      *)
(* code tests the absolute z-coordinate (z > 0).                           *)
C5_PovFilterLocalZ ==
    (op = "get_points_on_surface_sphere" /\ args.filter_for_pov) =>
        /\ result.ok
        /\ \A k \in 1 .. Len(result.val) :
               RLt(args.sphere.center.z, result.val[k].z)
        /\ result.val =
             SelectSeq(get_points_on_surface_sphere(
                           args.sphere, args.num_phi, args.num_theta, FALSE),
                       LAMBDA point : RLt(args.sphere.center.z, point.z))

-----------------------------------------------------------------------------
(* C6.  With filter_for_pov = False and positive num_phi, num_theta,       *)
(* get_points_on_surface_sphere returns exactly num_phi * num_theta        *)
(* points in phi-major order: the point of phi index i and theta index j   *)
(* is at position i * num_theta + j.                                       *)
C6_SphereUnfiltered ==
    (/\ op = "get_points_on_surface_sphere"
     /\ ~args.filter_for_pov
     /\ args.num_phi >= 1
     /\ args.num_theta >= 1) =>
        /\ result.ok
        /\ Len(result.val) = args.num_phi * args.num_theta
        /\ \A i \in 0 .. args.num_phi - 1, j \in 0 .. args.num_theta - 1 :
               result.val[i * args.num_theta + j + 1] =
                   SpherePoint(args.sphere, Rat(2 * i, args.num_phi),
                               Rat(j, args.num_theta))

\* An unfiltered sampling with several phi and theta steps that keeps points
\* below the sphere's center and below z = 0.
C6_Witness ==
    /\ op = "get_points_on_surface_sphere"
    /\ ~args.filter_for_pov
    /\ args.num_phi >= 2
    /\ args.num_theta >= 3
    /\ args.sphere.radius # Zero
    /\ Len(result.val) = args.num_phi * args.num_theta
    /\ \E k \in 1 .. Len(result.val) :
           /\ RLt(result.val[k].z, args.sphere.center.z)
           /\ RLt(result.val[k].z, Zero)

-----------------------------------------------------------------------------
(* C7.  For every line and num_points >= 1, get_points_on_line_3d returns  *)
(* exactly num_points points, the i-th (from 0) being                      *)
(* start + (end - start) * i / num_points; the first is line.start and     *)
(* line.end is not among them when start # end; (0,0,0)-(10,0,0) with      *)
(* num_points = 5 gives x = 0, 2, 4, 6, 8.                                 *)
C7_LineSampling ==
    (op = "get_points_on_line_3d" /\ args.num_points >= 1) =>
        /\ result.ok
        /\ Len(result.val) = args.num_points
        /\ \A i \in 0 .. args.num_points - 1 :
               LET p == result.val[i + 1]
                   n == I(args.num_points)
                   s == args.line.start
                   e == args.line.end
               IN  /\ RMul(n, RSub(p.x, s.x)) = RMul(I(i), RSub(e.x, s.x))
                   /\ RMul(n, RSub(p.y, s.y)) = RMul(I(i), RSub(e.y, s.y))
                   /\ RMul(n, RSub(p.z, s.z)) = RMul(I(i), RSub(e.z, s.z))
        /\ result.val[1] = args.line.start
        /\ args.line.start # args.line.end =>
               \A k \in 1 .. Len(result.val) : result.val[k] # args.line.end
        /\ (args.line = ExampleLine /\ args.num_points = 5) =>
               result.val = <<Point3D(I(0), Zero, Zero), Point3D(I(2), Zero, Zero),
                              Point3D(I(4), Zero, Zero), Point3D(I(6), Zero, Zero),
                              Point3D(I(8), Zero, Zero)>>

\* The specification's example: five points, the last at x = 8.
C7_Witness ==
    /\ op = "get_points_on_line_3d"
    /\ args.line = ExampleLine
    /\ args.num_points = 5
    /\ Len(result.val) = 5
    /\ result.val[5] = Point3D(I(8), Zero, Zero)

-----------------------------------------------------------------------------
(* C8.  For every circle with a nonzero normal and num_points = n >= 1,    *)
(* get_points_on_circumference_circle_3d returns exactly n points, each at *)
(* distance radius from the center and in the plane through the center     *)
(* perpendicular to the normal, whatever vector the basis construction     *)
(* draws.  Violated: for a draw parallel to the normal (or zero)           *)
(* gram_schmidt raises ZeroDivisionError (see C9).                         *)
C8_CircumferencePoints ==
    (op = "get_points_on_circumference_circle_3d" /\ args.num_points >= 1) =>
        /\ result.ok
        /\ Len(result.val) = args.num_points
        /\ \A k \in 1 .. Len(result.val) :
               /\ Approx(DistSqRounded(result.val[k], args.circle.center),
                         Sq(args.circle.radius))
               /\ Approx(dot(create_vector(result.val[k], args.circle.center),
                             args.circle.normal), Zero)

-----------------------------------------------------------------------------
(* C9.  For every unit vector n and every vector v0 that create_random can *)
(* draw, gram_schmidt(n) returns (v, w) with v.n = 0, w.n = 0, v.w = 0 and *)
(* |v| = |w| = 1, and never fails.  Violated: when v0 is zero or parallel  *)
(* to n the projected vector has length 0 and normalize divides by zero.   *)
C9_GramSchmidtOrthonormal ==
    op = "gram_schmidt" =>
        /\ result.ok
        /\ Approx(dot(result.val[1], args.n), Zero)
        /\ Approx(dot(result.val[2], args.n), Zero)
        /\ Approx(dot(result.val[1], result.val[2]), Zero)
        /\ Approx(SquaredLength(result.val[1]), One)
        /\ Approx(SquaredLength(result.val[2]), One)

-----------------------------------------------------------------------------
(* C10.  same_side_of_plane(plane, p1, p2) is true exactly when            *)
(* (p1 - center).normal and (p2 - center).normal are both positive, both   *)
(* negative or both zero; so two points on the plane are on the same side, *)
(* a point on the plane and one off it are not, and the predicate is       *)
(* reflexive and symmetric.                                                *)
C10_SameSide ==
    op = "same_side_of_plane" =>
        LET d1 == dot(create_vector(args.p1, args.plane.center), args.plane.normal)
            d2 == dot(create_vector(args.p2, args.plane.center), args.plane.normal)
        IN  /\ result.ok
            /\ result.val =
                 (\/ RLt(Zero, d1) /\ RLt(Zero, d2)
                  \/ RLt(d1, Zero) /\ RLt(d2, Zero)
                  \/ d1 = Zero /\ d2 = Zero)
            /\ args.p1 = args.p2 => result.val
            /\ result.val = same_side_of_plane(args.plane, args.p2, args.p1)

\* A point on the plane and a point off it: different sides.
C10_Witness ==
    /\ op = "same_side_of_plane"
    /\ dot(create_vector(args.p1, args.plane.center), args.plane.normal) = Zero
    /\ RLt(Zero, dot(create_vector(args.p2, args.plane.center), args.plane.normal))
    /\ result.val = FALSE

-----------------------------------------------------------------------------
(* C11.  point_is_inside_sphere(sphere, point) returns true exactly when   *)
(* the Euclidean distance from sphere.center to point is <= sphere.radius, *)
(* the boundary included: for the sphere of radius 5 at the origin it is   *)
(* true for (3,0,0) and (5,0,0) and false for (6,0,0).                     *)
C11_InsideSphere ==
    op = "point_is_inside_sphere" =>
        /\ result.ok
        /\ result.val =
             (/\ RLe(Zero, args.sphere.radius)
              /\ RLe(SquaredLength(create_vector(args.point, args.sphere.center)),
                     Sq(args.sphere.radius)))
        /\ (args.sphere = ExampleSphere /\ args.point = Point3D(I(3), Zero, Zero)) =>
               result.val = TRUE
        /\ (args.sphere = ExampleSphere /\ args.point = Point3D(I(5), Zero, Zero)) =>
               result.val = TRUE
        /\ (args.sphere = ExampleSphere /\ args.point = Point3D(I(6), Zero, Zero)) =>
               result.val = FALSE

\* The boundary case of the example: (5,0,0) is inside the sphere of
\* radius 5 at the origin.
C11_Witness ==
    /\ op = "point_is_inside_sphere"
    /\ args.sphere = ExampleSphere
    /\ args.point = Point3D(I(5), Zero, Zero)
    /\ calculate_distance(args.sphere.center, args.point) = args.sphere.radius
    /\ result.val = TRUE

-----------------------------------------------------------------------------
(* C12.  get_points_on_surface_cap and point_is_inside_cylinder handle     *)
(* NoCap, Flat and Round, and fail with ValueError (unknown cap type) when *)
(* given a cap type outside that set.  Violated: point_is_inside_cylinder  *)
(* computes the distance to the axis before it looks at the cap type, and  *)
(* that call raises AttributeError (see C1), so an unknown cap type is     *)
(* reported as AttributeError.                                             *)
C12_UnknownCapType ==
    op \in {"get_points_on_surface_cap", "point_is_inside_cylinder"} =>
        /\ args.cap_type \notin CylinderCapType => result = Raise("ValueError")
        /\ args.cap_type \in CylinderCapType => result.err # "ValueError"

-----------------------------------------------------------------------------
(* C13.  A sampling call with a negative resolution, and a sampling or     *)
(* containment call on a shape with a negative radius, fails with an error *)
(* instead of returning a point list or a boolean.  Violated: range() of a *)
(* negative number is empty, so a negative resolution yields the empty     *)
(* list, and no constructor or function checks the sign of a radius.       *)
C13_OutOfRangeRejected ==
    /\ (op = "get_points_on_line_3d" /\ args.num_points < 0) => ~result.ok
    /\ (/\ op = "get_points_on_surface_sphere"
        /\ \/ args.num_phi < 0
           \/ args.num_theta < 0
           \/ RLt(args.sphere.radius, Zero)) => ~result.ok
    /\ (op = "point_is_inside_sphere" /\ RLt(args.sphere.radius, Zero)) => ~result.ok

-----------------------------------------------------------------------------
(* C15.  For every string atom_symbol, get_color returns a Color: the      *)
(* table's color for a listed element symbol and the default pink          *)
(* (255,192,203) for every other string; to_angstrom returns the listed    *)
(* radius divided by 100 for a listed element and 1.7 for every other      *)
(* string.  Violated: the lookup is getattr on the scheme object, so a     *)
(* string that names another attribute of the object ("get_color",         *)
(* "__doc__", ...) yields that attribute: get_color returns a method or a  *)
(* string, and to_angstrom raises TypeError when it divides it by 100.     *)
C15_AtomLookupFallback ==
    /\ op = "get_color" =>
        /\ result.ok
        /\ result.val.type = "Color"
        /\ args.atom_symbol \in CpkElements =>
               result.val = CoreyPaulingKoltungAtomColor[args.atom_symbol]
        /\ args.atom_symbol \notin CpkElements =>
               result.val = [type |-> "Color", r |-> 255, g |-> 192, b |-> 203]
        /\ args.atom_symbol = "C" =>
               result.val = [type |-> "Color", r |-> 48, g |-> 48, b |-> 48]
    /\ op = "to_angstrom" =>
        /\ result.ok
        /\ args.atom_symbol \in PubChemElements =>
               result.val =
                   PyFloat(RDiv(PubChemAtomRadius[args.atom_symbol].v, I(100)))
        /\ args.atom_symbol \notin PubChemElements =>
               result.val = PyFloat(Rat(17, 10))
        /\ args.atom_symbol = "H" => result.val = PyFloat(Rat(12, 10))

-----------------------------------------------------------------------------
(* C16.  A Color constructed from three integers has each channel an       *)
(* integer in 0..255 (a channel below 0 becomes 0, one above 255 becomes   *)
(* 255), and so has every Color obtained from it by a sequence of          *)
(* diffuse(alpha) calls with alpha a float; alpha is clamped to [0, 1]; a  *)
(* diffuse call makes no channel larger than it was and leaves the Color   *)
(* it was called on unchanged.                                             *)
C16_ColorChannels ==
    /\ (/\ op = "Color"
        /\ args.r.type = "int" /\ args.g.type = "int" /\ args.b.type = "int") =>
        /\ result.ok
        /\ result.val.type = "Color"
        /\ \A c \in {"r", "g", "b"} :
               /\ result.val[c] \in 0 .. 255
               /\ args[c].v.n < 0 => result.val[c] = 0
               /\ args[c].v.n > 255 => result.val[c] = 255
               /\ args[c].v.n \in 0 .. 255 => result.val[c] = args[c].v.n
    /\ (op = "diffuse" /\ args.alpha.type = "float") =>
        /\ result.ok
        /\ result.val.type = "Color"
        /\ result.self = args.self
        /\ \A c \in {"r", "g", "b"} :
               /\ result.val[c] \in 0 .. 255
               /\ result.val[c] <= args.self[c]
               /\ FLt(args.alpha.v, Zero) => result.val[c] = 0
               /\ FLt(One, args.alpha.v) => result.val[c] = args.self[c]

\* The second diffuse(0.5) on a Color built with a channel above 255:
\* 255 -> 127 -> 63.
C16_Witness ==
    /\ op = "diffuse"
    /\ args.self = [type |-> "Color", r |-> 127, g |-> 0, b |-> 50]
    /\ args.alpha = PyFloat(Rat(1, 2))
    /\ result.ok
    /\ result.val = [type |-> "Color", r |-> 63, g |-> 0, b |-> 25]

-----------------------------------------------------------------------------
(* Quantities that C14 is stated with.                                     *)

\* The result of the call of frame f when it runs alone on the argument
\* values it was given.
Alone(f) ==
    CASE f.op = "same_side_of_plane" ->
             Ok(same_side_of_plane(f.args.plane, f.args.p1, f.args.p2))
      [] f.op = "distance_to_line" -> distance_to_line(f.args.line, f.args.point)
      [] f.op = "get_points_on_line_3d" -> Ok(get_points_on_line_3d(f.args.line, f.n))
      [] f.op = "get_points_on_surface_sphere" ->
             Ok(get_points_on_surface_sphere(f.args.sphere, f.n, f.n, FALSE))
      [] f.op = "point_is_inside_sphere" ->
             Ok(point_is_inside_sphere(f.args.sphere, f.args.point))
      [] f.op = "normalize" -> normalize(f.args.v)

\* The number of values that the call of frame f has drawn from the random
\* source.
Draws(f) ==
    IF f.op # "gram_schmidt" THEN 0
    ELSE IF f.pc = "draw" THEN Len(f.loc) ELSE 3

RECURSIVE SumDraws(_)
SumDraws(ts) ==
    IF ts = {} THEN 0
    ELSE LET t == CHOOSE x \in ts : TRUE
         IN  Draws(frames[t]) + SumDraws(ts \ {t})

-----------------------------------------------------------------------------
(* C14.  In every interleaving of concurrent calls: no call modifies an    *)
(* argument object (each object still has the value it had when the call   *)
(* was made); the random source has moved on by exactly the number of      *)
(* values that gram_schmidt calls have drawn, so no other operation        *)
(* touches it; and every finished call of an operation that does not reach *)
(* gram_schmidt has returned the result it returns when run alone on its   *)
(* arguments.                                                              *)
C14_Isolation ==
    /\ \A t \in Threads :
           frames[t].pc # "idle" =>
               \A k \in ObjectArgs(frames[t].op) : heap[k] = frames[t].args[k]
    /\ random.pos = SumDraws(Threads)
    /\ \A t \in Threads :
           (frames[t].pc = "done" /\ frames[t].op \in PureOps) =>
               frames[t].result = Alone(frames[t])

\* A distance_to_line call that finished with the result it has when run
\* alone although the other thread, inside gram_schmidt, drew from the
\* random source between its first statement and its return.
C14_Witness ==
    \E t \in Threads, u \in Threads :
        /\ frames[t].op = "distance_to_line"
        /\ frames[t].pc = "done"
        /\ frames[t].result.ok
        /\ frames[t].result = Alone(frames[t])
        /\ frames[t].random_at_call < frames[t].random_at_return
        /\ frames[u].op = "gram_schmidt"
        /\ frames[u].pc = "draw"

=============================================================================
